---- MODULE Spec2Model ----
(***************************************************************************)
(* osmABTS: the OpenStreetMap XML parser (readosm.py) and the road network *)
(* formation (network.py), modelled from the Python 2 sources.             *)
(*                                                                         *)
(* model.py's Model chains them with the later stages of a simulation.     *)
(*                                                                         *)
(* Three specifications share the variables:                               *)
(*   Spec       form_network_from_osm applied to a RawOSM instance drawn   *)
(*              from the bounded set Stores of well-typed entity stores    *)
(*              (RawOSM, Node and Way are public classes and the reducer   *)
(*              is a function of a RawOSM argument);                       *)
(*   SpecParse  read_osm driven by the start/end events expat delivers for *)
(*              a well-nested document;                                    *)
(*   SpecModel  the methods of a Model instance, called in any order.      *)
(***************************************************************************)
EXTENDS Integers, Sequences, FiniteSets, TLC

VARIABLES
    raw_osm,        \* the RawOSM instance: [nodes, ways]
    wayOrder,       \* the order in which raw_osm.ways.itervalues() yields the ways
    network,        \* what the caller of form_network_from_osm holds: None or a graph
    exc,            \* the exception the last call let escape ("none" when it returned)
    calls,          \* how many times form_network_from_osm was called
    current_state,  \* read_osm's stack of frames
    open,           \* the document's open elements, outermost first:
                    \*   [name, attrs, kids, snap, plain]
    pstate,         \* read_osm: "start", "parsing", "returned" or "raised"
    perr,           \* the exception read_osm let escape
    done,           \* history: the tag/nd children of each closed node/way element
    nevents,        \* number of start events delivered so far
    model           \* the fields of a Model instance besides raw_osm and network:
                    \*   [places, travellers, trips, time_span, paths], and the
                    \*   method called last

vars == <<raw_osm, wayOrder, network, exc, calls,
          current_state, open, pstate, perr, done, nevents, model>>

reducerVars == <<wayOrder, network, exc, calls, model>>
parserVars == <<current_state, open, pstate, perr, done, nevents>>

----------------------------------------------------------------------------
(* Bounds of the model *)

MaxNodeId == 2      \* point identities are 1..MaxNodeId
MaxWayId == 2       \* path identities are 1..MaxWayId
MaxLen == 2         \* longest point sequence of a path in Stores
MaxCalls == 2       \* calls of form_network_from_osm on one store
MaxEvents == 4      \* start events of a document
MaxDepth == 3       \* nesting depth of a document
MaxMethodCalls == 6 \* method calls on one Model instance
MaxNumber == 2      \* largest number of travellers asked for
MaxTrips == 2       \* most trips generated in one gen_trips call
MaxTimeSpan == 2    \* longest time span asked for

NodeIds == 1..MaxNodeId
WayIds == 1..MaxWayId

----------------------------------------------------------------------------
(* Python values *)

\* a dict with string keys and no entry
EmptyDict == [k \in {} |-> ""]

\* d[k] = v on a dict
DictSet(d, k, v) == [x \in DOMAIN d \cup {k} |-> IF x = k THEN v ELSE d[x]]

\* d.get(k, default)
DictGet(d, k, default) == IF k \in DOMAIN d THEN d[k] ELSE default

\* Python's None
None == [py |-> "None"]

\* a slot no value was assigned to
Unset == [py |-> "unset"]

\* a list and an int held in a field that can also hold None
PyList(items) == [py |-> "list", items |-> items]
PyInt(n) == [py |-> "int", val |-> n]

\* the fields Model.__init__ sets to None (model.py lines 101-105); time_span
\* is a slot it assigns nothing to
NewModel == [places |-> None, travellers |-> None, trips |-> None,
             time_span |-> Unset, paths |-> None, method |-> "__init__"]

\* nx.Graph(): no node, no edge
EmptyGraph == [py |-> "Graph", node |-> <<>>, edge |-> {}]

\* exceptions: [type, msg, arg]
NoError == [type |-> "none", msg |-> "", arg |-> ""]
Raise(type, msg, arg) == [type |-> type, msg |-> msg, arg |-> arg]

\* int(s) and float(s) on the attribute strings of the model's documents; a
\* string outside the table is no number and the conversion raises ValueError
IntTable == ("1" :> 1) @@ ("2" :> 2) @@ ("01" :> 1)
FloatTable == ("0" :> 0) @@ ("1" :> 1) @@ ("2.0" :> 2)

\* no closed element yet (relations counts the closed relation elements that
\* held a tag or nd child and nothing but relation content)
NoHistory == [nodes |-> <<>>, ways |-> <<>>, relations |-> 0]

----------------------------------------------------------------------------
(* network.py: constants *)

_NODES_TAGS == {"traffic_signals", "crossing", "turning_circle", "motorway_junction"}

_HIGHWAY_SPEEDS ==
    [residential |-> 20, primary |-> 40, primary_link |-> 40, secondary |-> 35,
     tertiary |-> 30, footway |-> 35, service |-> 35, motorway |-> 70]

----------------------------------------------------------------------------
(* network.py: utility functions *)

\* _test_if_node without the test of the value: any 'highway' tag makes a junction
TestIfNodeAnyHighway(node) == "highway" \in DOMAIN node.tags

_test_if_node(node) ==
    "highway" \in DOMAIN node.tags /\ node.tags["highway"] \in _NODES_TAGS

\* _calc_distance: geopy's vincenty(coord1, coord2).miles.  Coordinates of the
\* model are integer grid points and the distance is the grid distance in miles.
Abs(x) == IF x < 0 THEN -x ELSE x
_calc_distance(coord1, coord2) ==
    Abs(coord1[1] - coord2[1]) + Abs(coord1[2] - coord2[2])

\* distance / speed, a float in hours; the model counts in 1/840 hour, which
\* every speed of _HIGHWAY_SPEEDS divides.
TravelTime(distance, speed) == (distance * 840) \div speed

----------------------------------------------------------------------------
(* network.py: form_network_from_osm *)

\* lines 93-98: every point passing _test_if_node becomes a node with its coord
NodesFormation(nodes) ==
    [EmptyGraph EXCEPT
        !.node = [id \in {i \in DOMAIN nodes : _test_if_node(nodes[i])} |->
                     [coord |-> nodes[id].coord]]]

\* net.add_edge(u, v, travel_time=..., name=...): an undirected simple graph
\* keeps one edge per node pair (the attributes are overwritten) and adds the
\* end points that are not yet nodes, with no attribute.
AddEdge(net, u, v, travel_time, name) ==
    [py |-> "Graph",
     node |-> [id \in DOMAIN net.node \cup {u, v} |->
                  IF id \in DOMAIN net.node THEN net.node[id] ELSE EmptyDict],
     edge |-> {e \in net.edge : e.ends # {u, v}}
              \cup {[ends |-> {u, v}, travel_time |-> travel_time, name |-> name]}]

\* line 114: prev_coord = way.nodes[0].coord.  way.nodes is the list of integer
\* identities: indexing an empty list raises IndexError, and an integer has no
\* attribute coord, so the attribute access raises AttributeError.
PrevCoordInit(way) ==
    IF Len(way.nodes) = 0
    THEN [exc |-> "IndexError"]
    ELSE [exc |-> "AttributeError"]

\* lines 117-142: the loop over way.nodes from position i on.  prev_node_id is
\* <<>> for None and <<id>> for an identity.
RECURSIVE WalkNodes(_, _, _, _, _, _, _)
WalkNodes(nodes, way, i, prev_node_id, prev_coord, distance, net) ==
    IF i > Len(way.nodes) THEN [exc |-> "none", net |-> net]
    ELSE
      LET node_id == way.nodes[i] IN
      IF node_id \notin DOMAIN nodes THEN [exc |-> "KeyError", net |-> net]
      ELSE
        LET node == nodes[node_id]
            curr_coord == node.coord
            dist == distance + _calc_distance(curr_coord, prev_coord)
            highway == way.tags["highway"]
        IN
        IF _test_if_node(node)
        THEN
          IF prev_node_id # <<>>
          THEN
            IF highway \notin DOMAIN _HIGHWAY_SPEEDS
            THEN [exc |-> "KeyError", net |-> net]   \* not caught by except IndexError
            ELSE WalkNodes(nodes, way, i + 1, <<node_id>>, curr_coord, 0,
                           AddEdge(net, node_id, prev_node_id[1],
                                   TravelTime(dist, _HIGHWAY_SPEEDS[highway]),
                                   DictGet(way.tags, "name", "")))
          ELSE WalkNodes(nodes, way, i + 1, <<node_id>>, curr_coord, 0, net)
        ELSE WalkNodes(nodes, way, i + 1, prev_node_id, curr_coord, dist, net)

\* WalkWay without the 'highway' test: the first coordinate is read for every path
WalkWayNoSkip(nodes, way, net) ==
    [exc |-> PrevCoordInit(way).exc, net |-> net]

\* lines 103-142: one iteration of the loop over the ways
WalkWay(nodes, way, net) ==
    IF "highway" \notin DOMAIN way.tags
    THEN [exc |-> "none", net |-> net]        \* continue
    ELSE
      LET init == PrevCoordInit(way) IN
      IF init.exc # "none"
      THEN [exc |-> init.exc, net |-> net]
      ELSE WalkNodes(nodes, way, 1, <<>>, init.coord, 0, net)

\* lines 101-142: the loop over raw_osm.ways.itervalues(), in the order `order`
RECURSIVE EdgeFormation(_, _, _)
EdgeFormation(raw, order, net) ==
    IF order = <<>> THEN [exc |-> "none", net |-> net]
    ELSE
      LET r == WalkWay(raw.nodes, raw.ways[Head(order)], net) IN
      IF r.exc # "none" THEN r
      ELSE EdgeFormation(raw, Tail(order), r.net)

\* the whole function: [exc, net]; net is returned only when exc = "none"
form_network_from_osm(raw, order) ==
    EdgeFormation(raw, order, NodesFormation(raw.nodes))

----------------------------------------------------------------------------
(* The entity stores form_network_from_osm is applied to *)

\* a point's coordinate: the points lie on a line, one mile apart
CoordOf(id) == <<id, 0>>

NodeHighwayValues == {"crossing", "traffic_signals", "bus_stop"}
NodeTagMaps ==
    {EmptyDict} \cup {[k \in {"highway"} |-> v] : v \in NodeHighwayValues}

NodeMaps ==
    UNION {{f \in [S -> [coord : {CoordOf(i) : i \in S}, tags : NodeTagMaps]] :
              \A i \in S : f[i].coord = CoordOf(i)} : S \in SUBSET NodeIds}

WayHighwayValues == {"residential", "bogus"}
WayTagMaps ==
    {f \in UNION {[K -> WayHighwayValues \cup {"Elm St"}] :
                    K \in SUBSET {"highway", "name"}} :
        /\ "highway" \in DOMAIN f => f["highway"] \in WayHighwayValues
        /\ "name" \in DOMAIN f => f["name"] = "Elm St"}

WaySeqs == UNION {[1..n -> NodeIds] : n \in 0..MaxLen}

WayMaps == UNION {[S -> [nodes : WaySeqs, tags : WayTagMaps]] : S \in SUBSET WayIds}

Stores == [nodes : NodeMaps, ways : WayMaps]

\* the orders a dict's itervalues() can yield its entries in
Orders(S) ==
    {s \in [1..Cardinality(S) -> S] : \A i, j \in DOMAIN s : i # j => s[i] # s[j]}

----------------------------------------------------------------------------
(* Spec: the reducer on a store *)

Init ==
    /\ raw_osm \in Stores
    /\ wayOrder \in Orders(DOMAIN raw_osm.ways)
    /\ network = None
    /\ exc = "none"
    /\ calls = 0
    /\ current_state = <<>>
    /\ open = <<>>
    /\ pstate = "returned"
    /\ perr = NoError
    /\ done = NoHistory
    /\ nevents = 0
    /\ model = NewModel

\* a reducer that takes the 'highway' tag out of the paths it has looked at
StoreWithTagsConsumed(raw) ==
    [raw EXCEPT !.ways = [w \in DOMAIN raw.ways |->
                            [raw.ways[w] EXCEPT !.tags = EmptyDict]]]

\* the RawOSM instance the caller passed, after the call: lines 93-142 read
\* raw_osm.nodes, raw_osm.ways, node.tags, node.coord, way.tags and way.nodes
\* and assign to none of them
StoreAfter(raw) == raw

\* a caller's  network = form_network_from_osm(raw_osm)
FormNetwork ==
    /\ calls < MaxCalls
    /\ LET r == form_network_from_osm(raw_osm, wayOrder) IN
         /\ exc' = r.exc
         /\ network' = IF r.exc = "none" THEN r.net ELSE network
    /\ calls' = calls + 1
    /\ raw_osm' = StoreAfter(raw_osm)
    /\ UNCHANGED <<wayOrder, model>>
    /\ UNCHANGED parserVars

Next == FormNetwork

Spec == Init /\ [][Next]_vars

----------------------------------------------------------------------------
(* What the claims about the reducer speak of *)

JunctionKinds == {"traffic_signals", "crossing", "turning_circle", "motorway_junction"}

IsJunctionPoint(raw, id) ==
    /\ id \in DOMAIN raw.nodes
    /\ "highway" \in DOMAIN raw.nodes[id].tags
    /\ raw.nodes[id].tags["highway"] \in JunctionKinds

JunctionPoints(raw) == {id \in DOMAIN raw.nodes : IsJunctionPoint(raw, id)}

IsRoad(way) == "highway" \in DOMAIN way.tags
KnownClass(way) == IsRoad(way) /\ way.tags["highway"] \in DOMAIN _HIGHWAY_SPEEDS
UnknownClass(way) == IsRoad(way) /\ way.tags["highway"] \notin DOMAIN _HIGHWAY_SPEEDS
NoDangling(raw, way) == \A i \in DOMAIN way.nodes : way.nodes[i] \in DOMAIN raw.nodes

\* positions of the junction points in a path's sequence, in sequence order
JunctionPositions(raw, way) ==
    {i \in DOMAIN way.nodes : IsJunctionPoint(raw, way.nodes[i])}

\* p < q are the positions of two consecutive junctions of the sequence
Consecutive(raw, way, p, q) ==
    /\ p \in JunctionPositions(raw, way)
    /\ q \in JunctionPositions(raw, way)
    /\ p < q
    /\ \A m \in JunctionPositions(raw, way) : ~(p < m /\ m < q)

\* the sum of the distances between adjacent points from position p up to q
RECURSIVE PathLength(_, _, _, _)
PathLength(raw, way, p, q) ==
    IF p >= q THEN 0
    ELSE _calc_distance(raw.nodes[way.nodes[q - 1]].coord, raw.nodes[way.nodes[q]].coord)
         + PathLength(raw, way, p, q - 1)

\* a store the specification expects a graph for: every road path has a class
\* of the speed table and references only points of the store
WellFormedStore(raw) ==
    \A w \in DOMAIN raw.ways :
        IsRoad(raw.ways[w]) => KnownClass(raw.ways[w]) /\ NoDangling(raw, raw.ways[w])

Called == calls > 0
Returned == calls > 0 /\ exc = "none"

\* the store without path w, and the iteration order without it
WithoutWay(raw, w) ==
    [nodes |-> raw.nodes, ways |-> [x \in DOMAIN raw.ways \ {w} |-> raw.ways[x]]]
OrderWithout(order, w) == SelectSeq(order, LAMBDA x : x # w)

\* the store with the identities absent from the point mapping dropped from
\* every point sequence
WithoutDangling(raw) ==
    [nodes |-> raw.nodes,
     ways |-> [w \in DOMAIN raw.ways |->
                 [nodes |-> SelectSeq(raw.ways[w].nodes, LAMBDA id : id \in DOMAIN raw.nodes),
                  tags |-> raw.ways[w].tags]]]

----------------------------------------------------------------------------
(* Claims about the reducer, checked under Spec *)

\* C1: whenever form_network_from_osm returns a graph, its node set is exactly
\* the set of junction points of the store (each with the point's coordinate),
\* and the end points of its edges are junction points too.
C1_NodesAreJunctions ==
    Returned =>
        /\ DOMAIN network.node = JunctionPoints(raw_osm)
        /\ \A id \in DOMAIN network.node :
               network.node[id] = [coord |-> raw_osm.nodes[id].coord]
        /\ \A e \in network.edge : e.ends \subseteq JunctionPoints(raw_osm)

\* C1 witness: a graph was returned for a store holding a junction point and a
\* point whose 'highway' value is no junction kind.
C1_Witness ==
    /\ Returned
    /\ JunctionPoints(raw_osm) # {}
    /\ \E id \in DOMAIN raw_osm.nodes :
           /\ "highway" \in DOMAIN raw_osm.nodes[id].tags
           /\ ~IsJunctionPoint(raw_osm, id)

\* C2: on a well-formed store, after the reducer ran, every path with a class
\* of the speed table and k >= 2 junction points in its sequence has given the
\* graph an edge between each pair of consecutive junctions; when it is the
\* only path these are all the edges.
C2_EdgePerConsecutivePair ==
    (Called /\ WellFormedStore(raw_osm)) =>
        \A w \in DOMAIN raw_osm.ways :
            LET way == raw_osm.ways[w] IN
            (KnownClass(way) /\ Cardinality(JunctionPositions(raw_osm, way)) >= 2) =>
                /\ Returned
                /\ \A p, q \in DOMAIN way.nodes :
                       Consecutive(raw_osm, way, p, q) =>
                           \E e \in network.edge : e.ends = {way.nodes[p], way.nodes[q]}
                /\ DOMAIN raw_osm.ways = {w} =>
                       \A e \in network.edge :
                           \E p, q \in DOMAIN way.nodes :
                               /\ Consecutive(raw_osm, way, p, q)
                               /\ e.ends = {way.nodes[p], way.nodes[q]}

\* C3: on a well-formed store holding a single path, of a known class, every
\* pair of consecutive junctions J1, J2 of its sequence is joined in the graph
\* by an edge whose travel_time is the length of the sequence from J1 up to J2
\* divided by the speed of the class, and whose name is the path's 'name' tag
\* or the empty string.
C3_EdgeWeightAndName ==
    (Called /\ WellFormedStore(raw_osm)) =>
        \A w \in DOMAIN raw_osm.ways :
            LET way == raw_osm.ways[w] IN
            (KnownClass(way) /\ DOMAIN raw_osm.ways = {w}) =>
                \A p, q \in DOMAIN way.nodes :
                    Consecutive(raw_osm, way, p, q) =>
                        /\ Returned
                        /\ [ends |-> {way.nodes[p], way.nodes[q]},
                            travel_time |->
                                TravelTime(PathLength(raw_osm, way, p, q),
                                           _HIGHWAY_SPEEDS[way.tags["highway"]]),
                            name |-> IF "name" \in DOMAIN way.tags
                                     THEN way.tags["name"] ELSE ""]
                           \in network.edge

\* the configuration error of lines 132-134
UnknownHighwayError == "IndexError: Unknown highway type"

\* C6: when the store holds a path whose 'highway' value is no key of the
\* speed table, a call of the reducer ends with the configuration error.
C6_UnknownClassIsConfigurationError ==
    (Called /\ \E w \in DOMAIN raw_osm.ways : UnknownClass(raw_osm.ways[w])) =>
        exc = UnknownHighwayError

\* C7: when a road path references an identity absent from the point mapping
\* (in a store well-formed but for that), the reducer returns, and returns the
\* graph of the store with the absent identities dropped from the sequences.
C7_DanglingReferenceSkipped ==
    (/\ Called
     /\ WellFormedStore(WithoutDangling(raw_osm))
     /\ \E w \in DOMAIN raw_osm.ways :
            IsRoad(raw_osm.ways[w]) /\ ~NoDangling(raw_osm, raw_osm.ways[w])) =>
        /\ Returned
        /\ network = form_network_from_osm(WithoutDangling(raw_osm), wayOrder).net

C9_NonRoadPathSkipped ==
    Called =>
        /\ \A w \in DOMAIN raw_osm.ways :
               ~IsRoad(raw_osm.ways[w]) =>
                   LET r == form_network_from_osm(WithoutWay(raw_osm, w),
                                                  OrderWithout(wayOrder, w))
                   IN  /\ exc = r.exc
                       /\ exc = "none" => network = r.net
        /\ (\A w \in DOMAIN raw_osm.ways : ~IsRoad(raw_osm.ways[w])) =>
               /\ exc = "none"
               /\ network = NodesFormation(raw_osm.nodes)

\* C9 witness: a graph with a node was returned for a store with a path that
\* has no 'highway' key and whose sequence holds a junction point and an
\* identity absent from the point mapping.
C9_Witness ==
    /\ Returned
    /\ DOMAIN network.node # {}
    /\ \E w \in DOMAIN raw_osm.ways :
           LET way == raw_osm.ways[w] IN
           /\ ~IsRoad(way)
           /\ JunctionPositions(raw_osm, way) # {}
           /\ ~NoDangling(raw_osm, way)

\* C10: on a store holding a single path, of a known class, whose sequence has
\* exactly one junction point and otherwise only non-junction points of the
\* store, the reducer returns a graph without any edge.
C10_OneJunctionNoEdge ==
    (/\ Called
     /\ \E w \in DOMAIN raw_osm.ways :
            LET way == raw_osm.ways[w] IN
            /\ DOMAIN raw_osm.ways = {w}
            /\ KnownClass(way)
            /\ NoDangling(raw_osm, way)
            /\ Cardinality(JunctionPositions(raw_osm, way)) = 1) =>
        /\ Returned
        /\ network.edge = {}

----------------------------------------------------------------------------
(* readosm.py: the classes *)

\* attrs[key] handed to a conversion table (int or float): KeyError when the
\* attribute is absent, ValueError when the string is no number
Convert(attrs, key, table) ==
    IF key \notin DOMAIN attrs THEN [exc |-> Raise("KeyError", "", key), val |-> 0]
    ELSE IF attrs[key] \notin DOMAIN table
         THEN [exc |-> Raise("ValueError", "invalid literal", attrs[key]), val |-> 0]
         ELSE [exc |-> NoError, val |-> table[attrs[key]]]

\* Node.__init__: coord = (float(attrs['lat']), float(attrs['lon'])), tags = {}
NodeInit(attrs) ==
    LET lat == Convert(attrs, "lat", FloatTable)
        lon == Convert(attrs, "lon", FloatTable)
    IN  IF lat.exc # NoError THEN [exc |-> lat.exc, obj |-> None]
        ELSE IF lon.exc # NoError THEN [exc |-> lon.exc, obj |-> None]
        ELSE [exc |-> NoError,
              obj |-> [coord |-> <<lat.val, lon.val>>, tags |-> EmptyDict]]

\* Way.__init__: nodes = [], tags = {}
WayInit == [nodes |-> <<>>, tags |-> EmptyDict]

\* RawOSM.__init__: nodes = {}, ways = {}
RawOSMInit == [nodes |-> <<>>, ways |-> <<>>]

----------------------------------------------------------------------------
(* readosm.py: read_osm's call-backs *)

\* a frame of current_state is the tuple (id, entity) or None
Frame(id, cls, obj) == [py |-> "tuple", id |-> id, cls |-> cls, obj |-> obj]

\* type(parent) for a frame: a tuple or None, never the entity's class
PyType(frame) == IF frame.py = "None" THEN "NoneType" ELSE "tuple"

Top(stack) == stack[Len(stack)]
Pop(stack) == SubSeq(stack, 1, Len(stack) - 1)

\* a 'relation' start that pushes nothing
RelationStartNoPush(stack) == [exc |-> NoError, stack |-> stack]

\* lines 185-186: a 'relation' start pushes None
RelationStart(stack) == [exc |-> NoError, stack |-> Append(stack, None)]

\* an element name outside the list that is passed over
UnrecognizedStartIgnored(stack, name) == [exc |-> NoError, stack |-> stack]

\* lines 189-190: any other element name
UnrecognizedStart(stack, name) ==
    [exc |-> Raise("ValueError", "Unrecognized XML node", name), stack |-> stack]

\* start_element(name, attrs) on the stack: [exc, stack]
start_element(stack, name, attrs) ==
    CASE name = "osm" -> [exc |-> NoError, stack |-> stack]
      [] name = "node" ->
            LET id == Convert(attrs, "id", IntTable)
                node == NodeInit(attrs)
            IN  IF id.exc # NoError THEN [exc |-> id.exc, stack |-> stack]
                ELSE IF node.exc # NoError THEN [exc |-> node.exc, stack |-> stack]
                ELSE [exc |-> NoError,
                      stack |-> Append(stack, Frame(id.val, "Node", node.obj))]
      [] name = "way" ->
            LET id == Convert(attrs, "id", IntTable) IN
                IF id.exc # NoError THEN [exc |-> id.exc, stack |-> stack]
                ELSE [exc |-> NoError,
                      stack |-> Append(stack, Frame(id.val, "Way", WayInit))]
      [] name = "nd" ->
            IF stack = <<>>
            THEN [exc |-> Raise("IndexError", "list index out of range", ""),
                  stack |-> stack]
            ELSE LET parent == Top(stack) IN
                 IF PyType(parent) = "Way"
                 THEN LET ref == Convert(attrs, "ref", IntTable) IN
                      IF ref.exc # NoError THEN [exc |-> ref.exc, stack |-> stack]
                      ELSE [exc |-> NoError,
                            stack |-> [stack EXCEPT ![Len(stack)].obj.nodes =
                                                        Append(@, ref.val)]]
                 ELSE [exc |-> NoError, stack |-> stack]
      [] name = "tag" ->
            IF stack = <<>>
            THEN [exc |-> Raise("IndexError", "list index out of range", ""),
                  stack |-> stack]
            ELSE LET parent == Top(stack) IN
                 IF PyType(parent) \in {"Node", "Way"}
                 THEN IF "k" \notin DOMAIN attrs
                      THEN [exc |-> Raise("KeyError", "", "k"), stack |-> stack]
                      ELSE IF "v" \notin DOMAIN attrs
                      THEN [exc |-> Raise("KeyError", "", "v"), stack |-> stack]
                      ELSE [exc |-> NoError,
                            stack |-> [stack EXCEPT ![Len(stack)].obj.tags =
                                                        DictSet(@, attrs["k"], attrs["v"])]]
                 ELSE [exc |-> NoError, stack |-> stack]
      [] name = "relation" -> RelationStart(stack)
      [] name = "member" -> [exc |-> NoError, stack |-> stack]
      [] OTHER -> UnrecognizedStart(stack, name)

\* a 'relation' end that pops nothing
RelationEndNoPop(stack, raw) == [exc |-> NoError, stack |-> stack, raw |-> raw]

\* lines 204-205: a 'relation' end pops the top frame
RelationEnd(stack, raw) ==
    IF stack = <<>>
    THEN [exc |-> Raise("IndexError", "pop from empty list", ""),
          stack |-> stack, raw |-> raw]
    ELSE [exc |-> NoError, stack |-> Pop(stack), raw |-> raw]

\* end_element(name) on the stack and the store: [exc, stack, raw]
end_element(stack, raw, name) ==
    CASE name \in {"osm", "tag", "member", "nd"} ->
            [exc |-> NoError, stack |-> stack, raw |-> raw]
      [] name \in {"node", "way"} ->
            IF stack = <<>>
            THEN [exc |-> Raise("IndexError", "pop from empty list", ""),
                  stack |-> stack, raw |-> raw]
            ELSE LET new == Top(stack) IN
                 IF new.py = "None"      \* None[0]
                 THEN [exc |-> Raise("TypeError", "not subscriptable", ""),
                       stack |-> Pop(stack), raw |-> raw]
                 ELSE [exc |-> NoError,
                       stack |-> Pop(stack),
                       raw |-> IF name = "node"
                               THEN [raw EXCEPT !.nodes = (new.id :> new.obj) @@ @]
                               ELSE [raw EXCEPT !.ways = (new.id :> new.obj) @@ @]]
      [] name = "relation" -> RelationEnd(stack, raw)
      [] OTHER -> [exc |-> Raise("ValueError", "Unrecognized XML node", name),
                   stack |-> stack, raw |-> raw]

----------------------------------------------------------------------------
(* SpecParse: read_osm on the events of a document *)

\* the start events the model's documents are made of
ElementNames == {"osm", "node", "way", "nd", "tag", "relation", "member", "bounds"}

AttrsOf(name) ==
    CASE name = "node" ->
            {[id |-> "1", lat |-> "1", lon |-> "0"],
             [id |-> "2", lat |-> "2.0", lon |-> "0"],
             [lat |-> "1", lon |-> "0"],
             [id |-> "1", lon |-> "0"],
             [id |-> "1", lat |-> "1"],
             [id |-> "1", lat |-> "north", lon |-> "0"]}
      [] name = "way" -> {[id |-> "1"], [id |-> "01"], [id |-> "x"], EmptyDict}
      [] name = "nd" -> {[ref |-> "1"], [ref |-> "2"], EmptyDict}
      [] name = "tag" ->
            {[k |-> "highway", v |-> "crossing"],
             [k |-> "highway", v |-> "residential"],
             [k |-> "highway"],
             [v |-> "crossing"]}
      [] OTHER -> {EmptyDict}

\* the element that is open innermost
Innermost == open[Len(open)]

\* the tag/nd start event is noted with the element it is a child of
NoteChild(elems, name, attrs) ==
    IF elems # <<>> /\ name \in {"tag", "nd"}
    THEN [elems EXCEPT ![Len(elems)].kids = Append(@, [name |-> name, attrs |-> attrs])]
    ELSE elems

\* the elements a relation holds in an OSM document, and nested relations
RelationContent == {"member", "tag", "nd", "relation"}

\* an element of another kind starts: the open elements no longer hold only
\* relation content
NoteContent(elems, name) ==
    IF name \in RelationContent THEN elems
    ELSE [i \in DOMAIN elems |-> [elems[i] EXCEPT !.plain = FALSE]]

InitParse ==
    /\ raw_osm = RawOSMInit
    /\ wayOrder = <<>>
    /\ network = None
    /\ exc = "none"
    /\ calls = 0
    /\ current_state = <<>>
    /\ open = <<>>
    /\ pstate = "start"
    /\ perr = NoError
    /\ done = NoHistory
    /\ nevents = 0
    /\ model = NewModel

\* line 213: open(file_name, 'r') succeeds
OpenFile ==
    /\ pstate = "start"
    /\ pstate' = "parsing"
    /\ UNCHANGED <<raw_osm, current_state, open, perr, done, nevents>>
    /\ UNCHANGED reducerVars

\* lines 213-216: open raises IOError, re-raised as ValueError
OpenFails ==
    /\ pstate = "start"
    /\ pstate' = "raised"
    /\ perr' = Raise("ValueError", "Input file unable to be opened", "")
    /\ UNCHANGED <<raw_osm, current_state, open, done, nevents>>
    /\ UNCHANGED reducerVars

\* expat delivers the start of an element to start_element
StartEvent ==
    /\ pstate = "parsing"
    /\ nevents < MaxEvents
    /\ Len(open) < MaxDepth
    /\ open # <<>> \/ nevents = 0           \* a document has one root
    /\ \E name \in ElementNames : \E attrs \in AttrsOf(name) :
         LET r == start_element(current_state, name, attrs) IN
         /\ open' = Append(NoteContent(NoteChild(open, name, attrs), name),
                           [name |-> name, attrs |-> attrs, kids |-> <<>>,
                            snap |-> [stack |-> current_state, raw |-> raw_osm],
                            plain |-> TRUE])
         /\ current_state' = r.stack
         /\ perr' = r.exc
         /\ pstate' = IF r.exc = NoError THEN "parsing" ELSE "raised"
    /\ nevents' = nevents + 1
    /\ UNCHANGED <<raw_osm, done>>
    /\ UNCHANGED reducerVars

\* expat delivers the end of the innermost open element to end_element
EndEvent ==
    /\ pstate = "parsing"
    /\ open # <<>>
    /\ LET elem == Innermost
           r == end_element(current_state, raw_osm, elem.name)
       IN
         /\ open' = Pop(open)
         /\ current_state' = r.stack
         /\ raw_osm' = r.raw
         /\ perr' = r.exc
         /\ pstate' = IF r.exc = NoError THEN "parsing" ELSE "raised"
         /\ done' = CASE elem.name = "node" ->
                           [done EXCEPT !.nodes = (IntTable[elem.attrs["id"]] :> elem.kids) @@ @]
                      [] elem.name = "way" ->
                           [done EXCEPT !.ways = (IntTable[elem.attrs["id"]] :> elem.kids) @@ @]
                      [] elem.name = "relation" /\ elem.plain /\ elem.kids # <<>> ->
                           [done EXCEPT !.relations = @ + 1]
                      [] OTHER -> done
    /\ UNCHANGED nevents
    /\ UNCHANGED reducerVars

\* line 214 returns after the root element closed; line 224 returns raw_osm
ParseDone ==
    /\ pstate = "parsing"
    /\ open = <<>>
    /\ nevents > 0
    /\ pstate' = "returned"
    /\ UNCHANGED <<raw_osm, current_state, open, perr, done, nevents>>
    /\ UNCHANGED reducerVars

\* lines 217-222: the markup is malformed at this point of the document
\* (ExpatError), re-raised as ValueError
MalformedMarkup ==
    /\ pstate = "parsing"
    /\ pstate' = "raised"
    /\ perr' = Raise("ValueError", "Expat parsing failure", "")
    /\ UNCHANGED <<raw_osm, current_state, open, done, nevents>>
    /\ UNCHANGED reducerVars

NextParse ==
    \/ OpenFile
    \/ OpenFails
    \/ StartEvent
    \/ EndEvent
    \/ ParseDone
    \/ MalformedMarkup

SpecParse == InitParse /\ [][NextParse]_vars

----------------------------------------------------------------------------
(* Claims about the parser, checked under SpecParse *)

\* the tag map the 'tag' children of an element spell out: for each key the
\* value of the last child with that key
RECURSIVE LastWins(_)
LastWins(children) ==
    IF children = <<>> THEN EmptyDict
    ELSE LET e == children[Len(children)]
             rest == LastWins(SubSeq(children, 1, Len(children) - 1))
         IN  IF e.name = "tag" /\ {"k", "v"} \subseteq DOMAIN e.attrs
             THEN DictSet(rest, e.attrs["k"], e.attrs["v"])
             ELSE rest

\* the refs of the 'nd' children of an element, in document order
RECURSIVE Refs(_)
Refs(children) ==
    IF children = <<>> THEN <<>>
    ELSE LET e == children[Len(children)]
             rest == Refs(SubSeq(children, 1, Len(children) - 1))
         IN  IF e.name = "nd" /\ "ref" \in DOMAIN e.attrs /\ e.attrs["ref"] \in DOMAIN IntTable
             THEN Append(rest, IntTable[e.attrs["ref"]])
             ELSE rest

\* C4: after a parse that returned, the tag map of every committed point and
\* path holds, for each key, the value of the last 'tag' child of its element
\* with that key.
C4_TagsInserted ==
    pstate = "returned" =>
        /\ \A id \in DOMAIN done.nodes :
               /\ id \in DOMAIN raw_osm.nodes
               /\ raw_osm.nodes[id].tags = LastWins(done.nodes[id])
        /\ \A id \in DOMAIN done.ways :
               /\ id \in DOMAIN raw_osm.ways
               /\ raw_osm.ways[id].tags = LastWins(done.ways[id])

\* C5: after a parse that returned, the point sequence of every committed path
\* is the list of the refs of the 'nd' children of its element, in document
\* order.
C5_RefsAppended ==
    pstate = "returned" =>
        \A id \in DOMAIN done.ways :
            /\ id \in DOMAIN raw_osm.ways
            /\ raw_osm.ways[id].nodes = Refs(done.ways[id])

\* a relation element is open at position i of the document's open elements
OpenRelation(i) == i \in DOMAIN open /\ open[i].name = "relation"

\* since the start event of the element open at position i nothing was
\* committed, and the frames that were on the stack then are still there,
\* unchanged, below a frame of the element's own
Untouched(i) ==
    /\ raw_osm = open[i].snap.raw
    /\ Len(current_state) > Len(open[i].snap.stack)
    /\ SubSeq(current_state, 1, Len(open[i].snap.stack)) = open[i].snap.stack

\* the end event of the innermost element puts the stack and the store back
\* to what they were before its start event, and the parse goes on
Restored ==
    /\ pstate' = "parsing"
    /\ current_state' = Innermost.snap.stack
    /\ raw_osm' = Innermost.snap.raw

\* the step is the end event of a relation element
RelationEnds ==
    /\ pstate = "parsing"
    /\ open # <<>>
    /\ Innermost.name = "relation"
    /\ open' = Pop(open)

RecognizedNames == {"osm", "node", "way", "nd", "tag", "relation", "member"}

\* the exception left read_osm: line 224 is not reached, now or later
NoStoreForCaller == pstate' = "raised"

\* C12: a start event with an unrecognized element name, at any depth, fails
\* the parse with ValueError('Unrecognized XML node', name), and read_osm never
\* returns a store afterwards.
C12_UnrecognizedElementFails ==
    /\ []((open # <<>> /\ Innermost.name \notin RecognizedNames) =>
            /\ pstate = "raised"
            /\ perr = Raise("ValueError", "Unrecognized XML node", Innermost.name))
    /\ [][pstate = "raised" => NoStoreForCaller]_vars

\* C12 witness: the unrecognized element is nested in an open node, way or
\* relation, after a point was committed.
C12_Witness ==
    /\ Len(open) >= 3
    /\ Innermost.name \notin RecognizedNames
    /\ open[Len(open) - 1].name \in {"node", "way", "relation"}
    /\ DOMAIN raw_osm.nodes # {}
    /\ pstate = "raised"
    /\ perr.type = "ValueError"

\* the attributes the element open at position i must carry: id, lat, lon of
\* a node, id of a way, ref of an nd in a way, k and v of a tag in a node or way
RequiredAttrs(i) ==
    LET name == open[i].name
        parent == IF i > 1 THEN open[i - 1].name ELSE "" IN
    CASE name = "node" -> {"id", "lat", "lon"}
      [] name = "way" -> {"id"}
      [] name = "nd" /\ parent = "way" -> {"ref"}
      [] name = "tag" /\ parent \in {"node", "way"} -> {"k", "v"}
      [] OTHER -> {}

MissingAttrs(i) == RequiredAttrs(i) \ DOMAIN open[i].attrs

\* C13: a start event lacking a required attribute fails the parse with the
\* error for a missing attribute (KeyError of that attribute), and the stack
\* and the store are what they were before the event.
C13_MissingAttributeFails ==
    (open # <<>> /\ MissingAttrs(Len(open)) # {}) =>
        /\ pstate = "raised"
        /\ perr.type = "KeyError"
        /\ perr.arg \in MissingAttrs(Len(open))
        /\ current_state = Innermost.snap.stack
        /\ raw_osm = Innermost.snap.raw

\* C14: whenever read_osm fails, the exception that reaches the caller is a
\* ValueError.
C14_EveryFailureIsValueError ==
    pstate = "raised" => perr.type = "ValueError"

\* the open elements that have a frame: node, way and relation, outermost first
Framed == SelectSeq(open, LAMBDA e : e.name \in {"node", "way", "relation"})

\* the frame is the one the start event of the element pushed
FrameOf(frame, elem) ==
    CASE elem.name = "relation" -> frame = None
      [] elem.name = "node" ->
            /\ frame.py = "tuple"
            /\ frame.cls = "Node"
            /\ frame.id = IntTable[elem.attrs["id"]]
      [] elem.name = "way" ->
            /\ frame.py = "tuple"
            /\ frame.cls = "Way"
            /\ frame.id = IntTable[elem.attrs["id"]]
      [] OTHER -> FALSE

\* one frame per open node/way/relation element, in nesting order
StackMatchesOpen ==
    /\ Len(current_state) = Len(Framed)
    /\ \A i \in DOMAIN Framed : FrameOf(current_state[i], Framed[i])

\* the step is the end event of the innermost element, a node or a way: the
\* frame of its start event is popped and its entity is committed under the id
\* of the start event, into the mapping of its kind and into no other
EntityCommitted ==
    LET elem == Innermost
        id == IntTable[elem.attrs["id"]]
        frame == Top(current_state) IN
    /\ pstate' = "parsing"
    /\ Len(current_state) = Len(elem.snap.stack) + 1
    /\ current_state' = elem.snap.stack
    /\ frame.id = id
    /\ IF elem.name = "node"
       THEN /\ DOMAIN raw_osm'.nodes = DOMAIN raw_osm.nodes \cup {id}
            /\ raw_osm'.nodes[id] = frame.obj
            /\ \A other \in DOMAIN raw_osm.nodes \ {id} :
                   raw_osm'.nodes[other] = raw_osm.nodes[other]
            /\ raw_osm'.ways = raw_osm.ways
       ELSE /\ DOMAIN raw_osm'.ways = DOMAIN raw_osm.ways \cup {id}
            /\ raw_osm'.ways[id] = frame.obj
            /\ \A other \in DOMAIN raw_osm.ways \ {id} :
                   raw_osm'.ways[other] = raw_osm.ways[other]
            /\ raw_osm'.nodes = raw_osm.nodes

EntityEnds ==
    /\ pstate = "parsing"
    /\ open # <<>>
    /\ Innermost.name \in {"node", "way"}
    /\ open' = Pop(open)

\* C19: as long as no event has failed, the stack holds one frame per open
\* node/way/relation element, in nesting order; the end event of a node or way
\* pops the frame of its start event and commits the entity under that id;
\* and when read_osm returns the stack is empty.
C19_StackDiscipline ==
    /\ [](pstate \in {"parsing", "returned"} => StackMatchesOpen)
    /\ [][EntityEnds => EntityCommitted]_vars
    /\ [](pstate = "returned" => current_state = <<>>)

\* C19 witness: a way is open inside an open relation, after a point was
\* committed.
C19_Witness ==
    /\ pstate = "parsing"
    /\ Len(current_state) >= 2
    /\ Len(open) > Len(current_state)
    /\ Top(current_state) # None
    /\ DOMAIN raw_osm.nodes # {}

----------------------------------------------------------------------------
(* Further claims about the reducer, checked under Spec *)

\* C15: on a store in which every road path has a class of the speed table
\* and references only points of the store, every call of the reducer returns
\* a graph and raises nothing, whatever the length of the point sequences.
C15_WellFormedStoreGivesGraph ==
    (Called /\ WellFormedStore(raw_osm)) =>
        /\ exc = "none"
        /\ network # None

\* the step is a call of the reducer
ReducerRuns == calls' = calls + 1

EmittedEdge(raw, way, p, q) ==
    [ends |-> {way.nodes[p], way.nodes[q]},
     travel_time |-> TravelTime(PathLength(raw, way, p, q),
                                _HIGHWAY_SPEEDS[way.tags["highway"]]),
     name |-> IF "name" \in DOMAIN way.tags THEN way.tags["name"] ELSE ""]

\* path w1 is processed before path w2
ProcessedBefore(w1, w2) ==
    \E i, j \in DOMAIN wayOrder : i < j /\ wayOrder[i] = w1 /\ wayOrder[j] = w2

\* C18: on a well-formed store, when two paths of known classes each have a
\* pair of consecutive junctions with the same two end points, the graph the
\* reducer returns holds exactly one edge between them, with the travel_time
\* and the name emitted by the path processed later.
C18_LaterPathOverwritesEdge ==
    (Called /\ WellFormedStore(raw_osm)) =>
        \A w1, w2 \in DOMAIN raw_osm.ways :
            LET way1 == raw_osm.ways[w1]
                way2 == raw_osm.ways[w2] IN
            (KnownClass(way1) /\ KnownClass(way2) /\ ProcessedBefore(w1, w2)) =>
                \A p1, q1 \in DOMAIN way1.nodes : \A p2, q2 \in DOMAIN way2.nodes :
                    ( /\ Consecutive(raw_osm, way1, p1, q1)
                      /\ Consecutive(raw_osm, way2, p2, q2)
                      /\ {way1.nodes[p1], way1.nodes[q1]} = {way2.nodes[p2], way2.nodes[q2]}
                      /\ \A p3, q3 \in DOMAIN way2.nodes :
                            (Consecutive(raw_osm, way2, p3, q3) /\ p3 > p2) =>
                                {way2.nodes[p3], way2.nodes[q3]}
                                    # {way2.nodes[p2], way2.nodes[q2]} ) =>
                        /\ Returned
                        /\ {e \in network.edge : e.ends = {way2.nodes[p2], way2.nodes[q2]}}
                               = {EmittedEdge(raw_osm, way2, p2, q2)}

----------------------------------------------------------------------------
(* SpecModel: the methods of a Model instance *)

\* the stores read_osm hands to Model.__init__: points and paths as the
\* call-backs commit them, with the tag maps and point sequences they get at
\* construction
ModelStores ==
    {[nodes |-> [id \in N |-> [coord |-> CoordOf(id), tags |-> EmptyDict]],
      ways |-> [w \in W |-> WayInit]] : N \in SUBSET NodeIds, W \in SUBSET WayIds}

\* the objects the stages outside this package hand back: a dictionary of
\* places, a Traveller, a Trip, a ShortestPath
PlacesDict == [py |-> "dict"]
TravellerObj == [py |-> "Traveller"]
TripObj == [py |-> "Trip"]
PathObj == [py |-> "ShortestPath"]
ListOf(n, obj) == PyList([i \in 1..n |-> obj])

\* the state after  Model(osm_file)  returned
InitModel ==
    /\ raw_osm \in ModelStores
    /\ wayOrder \in Orders(DOMAIN raw_osm.ways)
    /\ network = None
    /\ exc = "none"
    /\ calls = 0
    /\ current_state = <<>>
    /\ open = <<>>
    /\ pstate = "returned"
    /\ perr = NoError
    /\ done = NoHistory
    /\ nevents = 0
    /\ model = NewModel

\* a method call that raises before it assigns to a field
Raises(method, type) ==
    /\ exc' = type
    /\ model' = [model EXCEPT !.method = method]
    /\ UNCHANGED network

\* lines 107-111
form_network ==
    /\ calls < MaxMethodCalls
    /\ calls' = calls + 1
    /\ LET r == form_network_from_osm(raw_osm, wayOrder) IN
         /\ exc' = r.exc
         /\ network' = IF r.exc = "none" THEN r.net ELSE network
    /\ raw_osm' = StoreAfter(raw_osm)
    /\ model' = [model EXCEPT !.method = "form_network"]
    /\ UNCHANGED wayOrder
    /\ UNCHANGED parserVars

\* form_places without the test of lines 117-118
FormPlacesUnguarded ==
    /\ calls < MaxMethodCalls
    /\ calls' = calls + 1
    /\ exc' = "none"
    /\ model' = [model EXCEPT !.places = PlacesDict, !.method = "form_places"]
    /\ UNCHANGED <<raw_osm, wayOrder, network>>
    /\ UNCHANGED parserVars

\* lines 113-120: form_places_from_osm returns the dictionary or raises
form_places ==
    /\ calls < MaxMethodCalls
    /\ calls' = calls + 1
    /\ IF network = None THEN Raises("form_places", "ValueError")
       ELSE \/ /\ exc' = "none"
               /\ model' = [model EXCEPT !.places = PlacesDict,
                                         !.method = "form_places"]
               /\ UNCHANGED network
            \/ Raises("form_places", "Exception")
    /\ UNCHANGED <<raw_osm, wayOrder>>
    /\ UNCHANGED parserVars

\* lines 122-138: one Traveller per number, or the constructor raises
form_travellers ==
    /\ calls < MaxMethodCalls
    /\ calls' = calls + 1
    /\ \E number \in 0..MaxNumber :
         IF network = None \/ model.places = None
         THEN Raises("form_travellers", "ValueError")
         ELSE \/ /\ exc' = "none"
                 /\ model' = [model EXCEPT !.travellers = ListOf(number, TravellerObj),
                                           !.method = "form_travellers"]
                 /\ UNCHANGED network
              \/ /\ number > 0
                 /\ Raises("form_travellers", "Exception")
    /\ UNCHANGED <<raw_osm, wayOrder>>
    /\ UNCHANGED parserVars

\* lines 140-164: time_span and the empty list are assigned before the loop;
\* each traveller's trips are appended, or trips.gen_trips raises and leaves
\* the list as far as it was filled
gen_trips ==
    /\ calls < MaxMethodCalls
    /\ calls' = calls + 1
    /\ \E time_span \in 0..MaxTimeSpan :
         IF network = None \/ model.places = None \/ model.travellers = None
         THEN Raises("gen_trips", "ValueError")
         ELSE \E n \in 0..MaxTrips : \E e \in {"none", "Exception"} :
                /\ model.travellers.items = <<>> => (n = 0 /\ e = "none")
                /\ exc' = e
                /\ model' = [model EXCEPT !.time_span = PyInt(time_span),
                                          !.trips = ListOf(n, TripObj),
                                          !.method = "gen_trips"]
                /\ UNCHANGED network
    /\ UNCHANGED <<raw_osm, wayOrder>>
    /\ UNCHANGED parserVars

\* lines 166-176: one ShortestPath per trip, or the constructor raises
compute_paths ==
    /\ calls < MaxMethodCalls
    /\ calls' = calls + 1
    /\ IF model.trips = None THEN Raises("compute_paths", "ValueError")
       ELSE \/ /\ exc' = "none"
               /\ model' = [model EXCEPT !.paths = ListOf(Len(model.trips.items), PathObj),
                                         !.method = "compute_paths"]
               /\ UNCHANGED network
            \/ /\ model.trips.items # <<>>
               /\ Raises("compute_paths", "Exception")
    /\ UNCHANGED <<raw_osm, wayOrder>>
    /\ UNCHANGED parserVars

\* lines 178-190: the mean is returned, or a division by len(self.paths) = 0
\* or by time_span = 0 raises; no field is assigned
compute_mean_time ==
    /\ calls < MaxMethodCalls
    /\ calls' = calls + 1
    /\ IF model.paths = None THEN Raises("compute_mean_time", "ValueError")
       ELSE IF model.paths.items = <<>> \/ model.time_span = PyInt(0)
            THEN Raises("compute_mean_time", "ZeroDivisionError")
            ELSE Raises("compute_mean_time", "none")
    /\ UNCHANGED <<raw_osm, wayOrder>>
    /\ UNCHANGED parserVars

NextModel ==
    \/ form_network
    \/ form_places
    \/ form_travellers
    \/ gen_trips
    \/ compute_paths
    \/ compute_mean_time

SpecModel == InitModel /\ [][NextModel]_vars

----------------------------------------------------------------------------
(* Claims about Model, checked under SpecModel *)

\* the fields of the instance
Fields == <<raw_osm, network, model.places, model.travellers, model.trips,
            model.time_span, model.paths>>

\* the method is called although a stage it tests for has not been formed
Premature(method) ==
    \/ method = "form_places" /\ network = None
    \/ method = "form_travellers" /\ (network = None \/ model.places = None)
    \/ method = "gen_trips" /\ (network = None \/ model.places = None
                                  \/ model.travellers = None)
    \/ method = "compute_paths" /\ model.trips = None
    \/ method = "compute_mean_time" /\ model.paths = None

\* every formed stage has its predecessors formed
StagesInOrder ==
    /\ model.places # None => network # None
    /\ model.travellers # None => model.places # None
    /\ model.trips # None => (model.travellers # None /\ model.time_span # Unset)
    /\ model.paths # None => model.trips # None

\* C17: a method called before its predecessors are formed raises ValueError
\* and changes no field, and in every state every formed stage has its
\* predecessors formed.
C17_StagesFormedInOrder ==
    /\ [][(calls' = calls + 1 /\ Premature(model'.method)) =>
            (exc' = "ValueError" /\ UNCHANGED Fields)]_vars
    /\ []StagesInOrder

\* C17 witness: compute_paths was called on an instance with travellers but
\* no trips, and raised ValueError.
C17_Witness ==
    /\ model.method = "compute_paths"
    /\ exc = "ValueError"
    /\ model.travellers # None
    /\ model.trips = None

====
